---- MODULE Spec2Model ----
(***************************************************************************)
(* Face identification flow of the MCP server: the recognize_face tool     *)
(* (handleFaceRecognition) calls PythonFaceRecognitionService.recognizeFace *)
(* which warms up against the detection backend (/health), asks it for the  *)
(* faces of the image (/detect), looks the first face up in the Supabase    *)
(* `faces` table through the SQL function match_faces, and inserts a new    *)
(* row when nothing matched and a name and a relationship were supplied.    *)
(*                                                                          *)
(* Numbers: similarities and confidences are kept exact.  A confidence c    *)
(* is the integer 100*c (0.8 is 80).  A cosine similarity is never rounded: *)
(* comparisons are done on dot products and squared norms of integer        *)
(* vectors, so that "exactly 0.7" is a case of the model.                   *)
(* match_faces is modelled by the meaning of its SQL text (the ivfflat      *)
(* index of the schema is an access path, not part of the result).          *)
(***************************************************************************)
EXTENDS Integers, Sequences, FiniteSets, TLC

VARIABLES faces, modelsLoaded, last, calls, camera

vars == <<faces, modelsLoaded, last, calls, camera>>

(***************************************************************************)
(* Bounds of the model.                                                    *)
(***************************************************************************)
\* most rows the faces table holds in the model
MaxRecords == 2
\* how many entries of the hexColors palette getRandomColor draws from
NumColors == 1
\* how many times the camera screen is mounted
MaxMounts == 2

(***************************************************************************)
(* JavaScript values.                                                      *)
(***************************************************************************)
\* an argument that was not passed (undefined), a column that is NULL
Undefined == "undefined"
NULL == "NULL"
\* a vector that is absent (an undefined face_embedding, a NULL column)
NoVector == <<>>

\* mutant of Truthy: only undefined counts as not supplied
TruthyNotUndefined(s) == s # Undefined

\* truthiness of an optional string argument: undefined and "" are falsy
Truthy(s) == s # Undefined /\ s # ""

\* !base64Image || base64Image.trim().length === 0
IsBlank(s) == s = Undefined \/ s = "" \/ s = " "

(***************************************************************************)
(* Vectors and cosine similarity (pgvector's <=> is the cosine distance,   *)
(* 1 - cos).                                                               *)
(***************************************************************************)
RECURSIVE SumTo(_, _)
SumTo(f, n) == IF n = 0 THEN 0 ELSE f[n] + SumTo(f, n - 1)

Dot(a, b) == SumTo([i \in 1..Len(a) |-> a[i] * b[i]], Len(a))

Norm2(a) == Dot(a, a)

\* 1 - (a <=> q) > pct/100, for pct >= 0
SimilarityAbove(a, q, pct) ==
    /\ Dot(a, q) > 0
    /\ Dot(a, q) * Dot(a, q) * 10000 > pct * pct * Norm2(a) * Norm2(q)

\* 1 - (a <=> q) = pct/100
SimilarityEquals(a, q, pct) ==
    /\ Dot(a, q) > 0
    /\ Dot(a, q) * Dot(a, q) * 10000 = pct * pct * Norm2(a) * Norm2(q)

\* (a <=> q) < (b <=> q): a is strictly closer to q than b is
Closer(a, b, q) ==
    LET da == Dot(a, q)
        db == Dot(b, q)
    IN  IF da >= 0 /\ db >= 0 THEN da * da * Norm2(b) > db * db * Norm2(a)
        ELSE IF da >= 0 THEN TRUE
        ELSE IF db >= 0 THEN FALSE
        ELSE da * da * Norm2(b) < db * db * Norm2(a)

(***************************************************************************)
(* The faces table and the SQL function match_faces.                       *)
(* A row is [id, name, relationship, color, face_embedding, user_id].      *)
(***************************************************************************)
\* match_threshold passed by identifyFace, in hundredths (0.7)
match_threshold == 70

\* mutant of match_faces: without ORDER BY any passing row can come first
match_faces_unordered(table, query_embedding, threshold) ==
    {table[i] : i \in {k \in 1..Len(table) :
                          /\ table[k].face_embedding # NoVector
                          /\ SimilarityAbove(table[k].face_embedding,
                                             query_embedding, threshold)}}

\* The rows match_faces can return first under LIMIT 1: the rows that pass
\* the WHERE clause and that no passing row precedes in ORDER BY distance.
\* Rows at the same distance come in an order SQL leaves open.
match_faces(table, query_embedding, threshold) ==
    LET passing == {i \in 1..Len(table) :
                       /\ table[i].face_embedding # NoVector
                       /\ SimilarityAbove(table[i].face_embedding,
                                          query_embedding, threshold)}
        first == {i \in passing : \A k \in passing :
                       ~Closer(table[k].face_embedding,
                               table[i].face_embedding, query_embedding)}
    IN  {table[i] : i \in first}

\* mutant of unique_name_per_user: NULL user ids compare equal
unique_name_nulls_equal(table, row) ==
    \A i \in 1..Len(table) :
        ~(table[i].name = row.name /\ table[i].user_id = row.user_id)

\* CONSTRAINT unique_name_per_user UNIQUE (name, user_id): NULLs are distinct
unique_name_per_user(table, row) ==
    \A i \in 1..Len(table) :
        ~(/\ table[i].name = row.name
          /\ table[i].user_id # NULL
          /\ row.user_id # NULL
          /\ table[i].user_id = row.user_id)

\* the row INSERT builds from a FaceInsert: column defaults fill what is absent
NewRow(table, faceData) ==
    [id |-> Len(table) + 1,
     name |-> faceData.name,
     relationship |-> faceData.relationship,
     color |-> IF faceData.color = Undefined THEN "blue" ELSE faceData.color,
     face_embedding |-> faceData.face_embedding,
     user_id |-> IF faceData.user_id = Undefined THEN NULL ELSE faceData.user_id]

\* how a call to the store can end: an answer, an {error} answer, a rejection
StoreAnswers == {"ok", "error", "throw"}

(***************************************************************************)
(* The detection backend (the Python service behind /health and /detect).  *)
(***************************************************************************)
\* how a request to the backend can end
HealthAnswers == {"ok", "nonok", "timeout", "reject"}
DetectAnswers == {"ok", "nonok", "reject"}

\* detection confidence of a face, in hundredths
FaceConfidence == 95

Face(v) == [embedding |-> v, confidence |-> FaceConfidence]

\* the images of the model and what /detect answers for each when it answers
ContentImages == {"imgNone", "imgBad", "imgA", "imgB", "imgAB", "imgT", "imgBA"}
Images == {"", " "} \cup ContentImages

PythonDetect(image) ==
    CASE image = "imgNone" -> [success |-> TRUE,  faces |-> <<>>]
      [] image = "imgBad"  -> [success |-> FALSE, faces |-> <<>>]
      [] image = "dataimage/pngbase64imgA" -> [success |-> FALSE, faces |-> <<>>]
      [] image = "imgA"    -> [success |-> TRUE,  faces |-> <<Face(<<1, 0, 0>>)>>]
      [] image = "imgB"    -> [success |-> TRUE,  faces |-> <<Face(<<0, 1, 0>>)>>]
      [] image = "imgAB"   -> [success |-> TRUE,  faces |-> <<Face(<<1, 1, 0>>)>>]
      [] image = "imgT"    -> [success |-> TRUE,  faces |-> <<Face(<<3, 4, 5>>)>>]
      [] image = "imgBA"   -> [success |-> TRUE,
                               faces |-> <<Face(<<0, 1, 0>>), Face(<<1, 0, 0>>)>>]

\* the optional arguments <<person_name, person_relationship>> of the tool
\* call: neither, one of them, one of them with the other empty, both
PersonArguments ==
    {<<Undefined, Undefined>>, <<"Ana", Undefined>>, <<"", "Daughter">>,
     <<"Ana", "Daughter">>, <<"Bob", "Daughter">>}

(***************************************************************************)
(* PythonFaceRecognitionService.  Every method is an operator from the     *)
(* state it reads and the answers of the services it calls to what it      *)
(* returns, the state it leaves and the requests it issued.  A message is  *)
(* the sequence of the pieces of its template string.                      *)
(***************************************************************************)
\* Buffer.from(base64Image, 'base64'), the buffer named by its base64 text.
\* The decoder skips the characters that are not base64 digits, so the
\* letters of a data-URL prefix are decoded in front of the payload.
BufferFromBase64(base64Image) ==
    CASE base64Image = "data:image/png;base64,imgA" -> "dataimage/pngbase64imgA"
      [] OTHER -> base64Image

\* error.message.includes('fetch')
IncludesFetch(message) == \E i \in 1..Len(message) : message[i] = "fetch failed"

\* mutant of initialize: no early return, /health is asked every time
initializeEveryTime(loaded, health) ==
    [threw |-> health # "ok", message |-> <<"Python service not available">>,
     modelsLoaded |-> health = "ok", requests |-> <<"health">>]

\* mutant of initialize: the flag is set before the /health request is sent
initializeFlagFirst(loaded, health) ==
    [threw |-> ~loaded /\ health # "ok", message |-> <<"Python service not available">>,
     modelsLoaded |-> TRUE,
     requests |-> IF loaded THEN <<>> ELSE <<"health">>]

\* initialize(): the one /health request of the warm-up
initialize(loaded, health) ==
    IF loaded
    THEN [threw |-> FALSE, message |-> <<>>, modelsLoaded |-> TRUE, requests |-> <<>>]
    ELSE CASE health = "ok" ->
                [threw |-> FALSE, message |-> <<>>, modelsLoaded |-> TRUE,
                 requests |-> <<"health">>]
           [] health = "nonok" ->
                [threw |-> TRUE,
                 message |-> <<"Python face recognition service could not be initialized: ",
                               "Python service not available: 503">>,
                 modelsLoaded |-> FALSE, requests |-> <<"health">>]
           [] health = "timeout" ->
                [threw |-> TRUE,
                 message |-> <<"Python face recognition service connection timeout - is the service running?">>,
                 modelsLoaded |-> FALSE, requests |-> <<"health">>]
           [] health = "reject" ->
                [threw |-> TRUE,
                 message |-> <<"Python face recognition service could not be initialized: ",
                               "fetch failed">>,
                 modelsLoaded |-> FALSE, requests |-> <<"health">>]

\* detectFaces(): every failure inside it is caught and becomes []
detectFaces(loaded, health, detect, image) ==
    LET init == initialize(loaded, health)
        response == PythonDetect(image)
    IN  IF init.threw
        THEN [faces |-> <<>>, modelsLoaded |-> init.modelsLoaded,
              requests |-> init.requests]
        ELSE [faces |-> IF detect = "ok" /\ response.success
                        THEN response.faces ELSE <<>>,
              modelsLoaded |-> init.modelsLoaded,
              requests |-> init.requests \o <<"detect">>]

\* identifyFace(): the values it can return, NULL for null
identifyFace(table, embedding, answer) ==
    LET data == match_faces(table, embedding, match_threshold)
    IN  IF answer # "ok" \/ data = {}
        THEN {[found |-> FALSE]}
        ELSE {[found |-> TRUE, record |-> r] : r \in data}

\* mutant of addFace: the insert is refused when a stored row already
\* matches the descriptor
addFaceUnlessMatched(table, faceData, answer) ==
    LET row == [id |-> Len(table) + 1, name |-> faceData.name,
                relationship |-> faceData.relationship, color |-> faceData.color,
                face_embedding |-> faceData.face_embedding, user_id |-> NULL]
    IN  IF answer = "ok" /\ match_faces(table, faceData.face_embedding, 70) = {}
        THEN [added |-> TRUE, record |-> row, table |-> Append(table, row)]
        ELSE [added |-> FALSE, table |-> table]

\* addFace(): insert one row and return it, null when the insert fails
addFace(table, faceData, answer) ==
    LET row == NewRow(table, faceData)
    IN  IF answer = "ok" /\ unique_name_per_user(table, row)
        THEN [added |-> TRUE, record |-> row, table |-> Append(table, row)]
        ELSE [added |-> FALSE, table |-> table]

\* the palette of getRandomColor (its first NumColors entries)
hexColors == <<"#FF6B6B", "#4ECDC4", "#45B7D1", "#96CEB4", "#FFEAA7", "#DDA0DD",
               "#FFB6C1", "#98D8C8", "#F7DC6F", "#BB8FCE", "#85C1E9", "#F8C471">>

getRandomColor == {hexColors[i] : i \in 1..NumColors}

\* what one run of recognizeFace leaves behind
Outcome(result, table, loaded, requests, storeCalls, answers) ==
    [result |-> result, faces |-> table, modelsLoaded |-> loaded,
     requests |-> requests, storeCalls |-> storeCalls, answers |-> answers]

\* how a request ended, as the history keeps it
Ended(answer) ==
    IF answer \in {"ok", "none"} THEN answer ELSE "failed"

Answers(health, detect, match, insert) ==
    [health |-> health, detect |-> Ended(detect), match |-> Ended(match),
     insert |-> Ended(insert)]

\* the catch block of recognizeFace
CaughtResult(message) ==
    [success |-> FALSE,
     message |-> IF IncludesFetch(message)
                 THEN <<"Cannot connect to Python face recognition service - is it running?">>
                 ELSE message,
     error |-> message]

NoImageResult ==
    [success |-> FALSE, message |-> <<"No image data provided">>,
     error |-> <<"Empty image data">>]

\* mutant of NoFacesResult: the wording of another no-face reply
NoFaceDetectedResult ==
    [success |-> FALSE,
     message |-> <<"No face detected in the image. Please provide a clear image with a face.">>]

NoFacesResult ==
    [success |-> FALSE, message |-> <<"No faces detected in the image">>,
     error |-> <<"No faces found">>]

FoundResult(existingPerson) ==
    [success |-> TRUE, person |-> existingPerson.name,
     relationship |-> existingPerson.relationship, confidence |-> 80,
     color |-> existingPerson.color,
     message |-> <<"Found existing person: ", existingPerson.name, " (",
                   existingPerson.relationship, ")">>]

AddedResult(newFace) ==
    [success |-> TRUE, person |-> newFace.name,
     relationship |-> newFace.relationship, confidence |-> 100,
     color |-> newFace.color,
     message |-> <<"Added new person: ", newFace.name, " (",
                   newFace.relationship, ")">>]

UnknownResult(face) ==
    [success |-> FALSE, person |-> "Unknown", relationship |-> "Unknown",
     confidence |-> face.confidence,
     message |-> <<"Face detected but not recognized. Provide name and relationship to add new person.">>]

\* mutant of FirstFace: the last detected face is the one resolved
LastFace(faceDetections) == faceDetections[Len(faceDetections)]

\* const face = faceDetections[0]
FirstFace(faceDetections) == faceDetections[1]

\* recognizeFace, after the first face was looked up and nothing was found
AddOrUnknown(table, loaded, requests, face, personName, personRelationship, health, detect, match) ==
    IF Truthy(personName) /\ Truthy(personRelationship)
    THEN {LET add == addFace(table,
                       [name |-> personName, relationship |-> personRelationship,
                        face_embedding |-> face.embedding, color |-> color,
                        user_id |-> Undefined],
                       insert)
          IN  Outcome(IF add.added THEN AddedResult(add.record)
                      ELSE UnknownResult(face),
                      add.table, loaded, requests, <<"match_faces", "insert">>,
                      Answers(health, detect, match, insert)) :
            insert \in StoreAnswers, color \in getRandomColor}
    ELSE {Outcome(UnknownResult(face), table, loaded, requests, <<"match_faces">>,
                  Answers(health, detect, match, "none"))}

\* recognizeFace, from the detection on
DetectAndResolve(table, loaded, requests, base64Image, personName, personRelationship, health) ==
    UNION {LET det == detectFaces(loaded, "none", detect,
                                  BufferFromBase64(base64Image))
               reqs == requests \o det.requests
           IN  IF Len(det.faces) = 0
               THEN {Outcome(NoFacesResult, table, det.modelsLoaded, reqs, <<>>,
                             Answers(health, detect, "none", "none"))}
               ELSE LET face == FirstFace(det.faces)
                    IN  UNION {UNION {IF existingPerson.found
                                      THEN {Outcome(FoundResult(existingPerson.record),
                                                    table, det.modelsLoaded, reqs,
                                                    <<"match_faces">>,
                                                    Answers(health, detect, match, "none"))}
                                      ELSE AddOrUnknown(table, det.modelsLoaded, reqs,
                                                        face, personName,
                                                        personRelationship,
                                                        health, detect, match) :
                                      existingPerson \in identifyFace(table, face.embedding, match)} :
                               match \in StoreAnswers} :
           detect \in DetectAnswers}

\* recognizeFace(base64Image, personName?, personRelationship?): every way
\* one call can run from the state (table, loaded)
recognizeFace(table, loaded, base64Image, personName, personRelationship) ==
    UNION {LET init == initialize(loaded, health)
           IN  IF init.threw
               THEN {Outcome(CaughtResult(init.message), table, init.modelsLoaded,
                             init.requests, <<>>,
                             Answers(health, "none", "none", "none"))}
               ELSE IF IsBlank(base64Image)
               THEN {Outcome(NoImageResult, table, init.modelsLoaded,
                             init.requests, <<>>,
                             Answers(health, "none", "none", "none"))}
               ELSE DetectAndResolve(table, init.modelsLoaded, init.requests,
                                     base64Image, personName, personRelationship,
                                     health) :
           health \in IF loaded THEN {"none"} ELSE HealthAnswers}

(***************************************************************************)
(* The recognize_face tool of the MCP server.                              *)
(***************************************************************************)
\* what handleFaceRecognition returns for a result of recognizeFace
ToolContent(recognitionResult) ==
    [content |-> <<[type |-> "text", text |-> recognitionResult]>>]

\* the recognizeFace calls that can be in flight together (the request
\* handler is async: a second request is taken while the first one awaits)
Callers == {"c1", "c2"}

\* a caller without a call in flight
Idle == [pc |-> "idle"]

\* the camera screen of the app before it is shown: no home location in the
\* storage, no instance of the component mounted yet.  lost[s] and rec[s]
\* are the location check and the audio recording of the s-th instance.
CameraInit ==
    [home |-> <<>>, mounts |-> 0, mounted |-> FALSE,
     lost |-> [s \in 1..MaxMounts |-> [pc |-> "unmounted"]],
     rec |-> [s \in 1..MaxMounts |-> [pc |-> "unmounted"]]]

Init ==
    /\ faces = <<>>
    /\ modelsLoaded = FALSE
    /\ last = [called |-> FALSE]
    /\ calls = [c \in Callers |-> Idle]
    /\ camera = CameraInit

\* handleFaceRecognition(args): one recognize_face tool call, start to end
handleFaceRecognition(image_data, person_name, person_relationship) ==
    \E o \in recognizeFace(faces, modelsLoaded, image_data, person_name,
                           person_relationship) :
        /\ Len(o.faces) <= MaxRecords
        /\ faces' = o.faces
        /\ modelsLoaded' = o.modelsLoaded
        /\ last' = [called |-> TRUE,
                    image_data |-> image_data,
                    person_name |-> person_name,
                    person_relationship |-> person_relationship,
                    before |-> faces,
                    loadedBefore |-> modelsLoaded,
                    previousHealth |-> IF last.called THEN last.answers.health
                                       ELSE "none",
                    answers |-> o.answers,
                    requests |-> o.requests,
                    storeCalls |-> o.storeCalls,
                    response |-> ToolContent(o.result)]
        /\ UNCHANGED <<calls, camera>>

\* a client that waits for the response before it sends its next request
CallTool(image_data, person_name, person_relationship) ==
    /\ ~last.called
    /\ handleFaceRecognition(image_data, person_name, person_relationship)

\* the response of the finished call is handed to the client
Deliver ==
    /\ last.called
    /\ last' = [called |-> FALSE]
    /\ UNCHANGED <<faces, modelsLoaded, calls, camera>>

Next ==
    \/ \E image_data \in Images, args \in PersonArguments :
           CallTool(image_data, args[1], args[2])
    \/ Deliver

Spec == Init /\ [][Next]_vars

\* tool calls handled back to back: `last` is the call before the next one
NextBackToBack ==
    \E image_data \in Images, args \in PersonArguments :
        handleFaceRecognition(image_data, args[1], args[2])

SpecBackToBack == Init /\ [][NextBackToBack]_vars

(***************************************************************************)
(* recognizeFace step by step.  Every await of the method is a position of *)
(* the call: "health" (the fetch of /health in initialize), "detect" (the   *)
(* fetch of /detect), "match" (supabase.rpc match_faces), "insert" (the     *)
(* insert of addFace).  The backend and the store answer when they answer;  *)
(* calls of several callers interleave at these positions.                  *)
(***************************************************************************)
\* the requests the concurrent callers send: <<image, name, relationship>>
ConcurrentRequests ==
    {<<"", Undefined, Undefined>>, <<"imgNone", Undefined, Undefined>>,
     <<"imgA", Undefined, Undefined>>, <<"imgA", "Ana", "Daughter">>,
     <<"imgB", "Bob", "Daughter">>}

\* a call that waits at position pc
Awaiting(pc, call, answers) ==
    [pc |-> pc, base64Image |-> call.base64Image,
     personName |-> call.personName,
     personRelationship |-> call.personRelationship, answers |-> answers]

\* a call that waits at "match" or "insert" for the face it resolves
AwaitingFor(pc, call, face, answers) ==
    [pc |-> pc, base64Image |-> call.base64Image,
     personName |-> call.personName,
     personRelationship |-> call.personRelationship, face |-> face,
     answers |-> answers]

\* a call that returned result
Returned(call, result, answers) ==
    [pc |-> "done", base64Image |-> call.base64Image,
     personName |-> call.personName,
     personRelationship |-> call.personRelationship, answers |-> answers,
     result |-> result]

\* recognizeFace once initialize is through: the check of the image data
AfterInitialize(call, health) ==
    IF IsBlank(call.base64Image)
    THEN Returned(call, NoImageResult, Answers(health, "none", "none", "none"))
    ELSE Awaiting("detect", call, Answers(health, "none", "none", "none"))

\* recognizeFace is called: up to its first await
Begin(c, base64Image, personName, personRelationship) ==
    LET call == [base64Image |-> base64Image, personName |-> personName,
                 personRelationship |-> personRelationship]
    IN  /\ calls[c].pc = "idle"
        /\ calls' = [calls EXCEPT ![c] =
                        IF modelsLoaded
                        THEN AfterInitialize(call, "none")
                        ELSE Awaiting("health", call,
                                      Answers("none", "none", "none", "none"))]
        /\ UNCHANGED <<faces, modelsLoaded, last, camera>>

\* /health answers (or the request is rejected) before the 5 s are over
HealthAnswer(c, health) ==
    LET init == initialize(FALSE, health)
    IN  /\ calls[c].pc = "health"
        /\ health # "timeout"
        /\ modelsLoaded' = (modelsLoaded \/ init.modelsLoaded)
        /\ calls' = [calls EXCEPT ![c] =
                        IF init.threw
                        THEN Returned(calls[c], CaughtResult(init.message),
                                      Answers(health, "none", "none", "none"))
                        ELSE AfterInitialize(calls[c], health)]
        /\ UNCHANGED <<faces, last, camera>>

\* the 5 s timer of initialize fires: controller.abort()
HealthTimeout(c) ==
    LET init == initialize(FALSE, "timeout")
    IN  /\ calls[c].pc = "health"
        /\ calls' = [calls EXCEPT ![c] =
                        Returned(calls[c], CaughtResult(init.message),
                                 Answers("timeout", "none", "none", "none"))]
        /\ UNCHANGED <<faces, modelsLoaded, last, camera>>

\* /detect answers (or the request is rejected)
DetectAnswer(c, detect) ==
    LET call == calls[c]
        det == detectFaces(modelsLoaded, "none", detect,
                           BufferFromBase64(call.base64Image))
        answers == Answers(call.answers.health, detect, "none", "none")
    IN  /\ call.pc = "detect"
        /\ modelsLoaded
        /\ calls' = [calls EXCEPT ![c] =
                        IF Len(det.faces) = 0
                        THEN Returned(call, NoFacesResult, answers)
                        ELSE AwaitingFor("match", call, FirstFace(det.faces),
                                         answers)]
        /\ UNCHANGED <<faces, modelsLoaded, last, camera>>

\* the store answers the match query (or the request is rejected)
MatchAnswer(c, match) ==
    LET call == calls[c]
        answers == Answers(call.answers.health, call.answers.detect, match, "none")
    IN  /\ call.pc = "match"
        /\ \E existingPerson \in identifyFace(faces, call.face.embedding, match) :
               calls' = [calls EXCEPT ![c] =
                           IF existingPerson.found
                           THEN Returned(call, FoundResult(existingPerson.record),
                                         answers)
                           ELSE IF Truthy(call.personName)
                                   /\ Truthy(call.personRelationship)
                           THEN AwaitingFor("insert", call, call.face, answers)
                           ELSE Returned(call, UnknownResult(call.face), answers)]
        /\ UNCHANGED <<faces, modelsLoaded, last, camera>>

\* the store answers the insert (or the request is rejected)
InsertAnswer(c, insert, color) ==
    LET call == calls[c]
        add == addFace(faces,
                       [name |-> call.personName,
                        relationship |-> call.personRelationship,
                        face_embedding |-> call.face.embedding, color |-> color,
                        user_id |-> Undefined],
                       insert)
        answers == Answers(call.answers.health, call.answers.detect,
                           call.answers.match, insert)
    IN  /\ call.pc = "insert"
        /\ Len(add.table) <= MaxRecords
        /\ faces' = add.table
        /\ calls' = [calls EXCEPT ![c] =
                        Returned(call,
                                 IF add.added THEN AddedResult(add.record)
                                 ELSE UnknownResult(call.face),
                                 answers)]
        /\ UNCHANGED <<modelsLoaded, last, camera>>

\* the result is handed to the caller, who can call again
Return(c) ==
    /\ calls[c].pc = "done"
    /\ calls' = [calls EXCEPT ![c] = Idle]
    /\ UNCHANGED <<faces, modelsLoaded, last, camera>>

NextConcurrent ==
    \E c \in Callers :
        \/ \E request \in ConcurrentRequests :
               Begin(c, request[1], request[2], request[3])
        \/ \E health \in HealthAnswers : HealthAnswer(c, health)
        \/ HealthTimeout(c)
        \/ \E detect \in DetectAnswers : DetectAnswer(c, detect)
        \/ \E match \in StoreAnswers : MatchAnswer(c, match)
        \/ \E insert \in StoreAnswers, color \in getRandomColor :
               InsertAnswer(c, insert, color)
        \/ Return(c)

SpecConcurrent == Init /\ [][NextConcurrent]_vars

\* what runs without waiting for anybody else: the timer of initialize and
\* the hand-over of a result.  An answer of the backend or of the store may
\* never come.
Fairness ==
    \A c \in Callers : WF_vars(HealthTimeout(c)) /\ WF_vars(Return(c))

SpecConcurrentFair == SpecConcurrent /\ Fairness

(***************************************************************************)
(* The other ways a row gets into the faces table: the add_face operation  *)
(* of the face_recognition tool (the index.ts with operations), a direct   *)
(* call of addFace with a FaceInsert, and the SQL function add_face.        *)
(***************************************************************************)
\* processImage: the data-URL prefix is cut off before the base64 decoding
processImage(base64Image) ==
    CASE base64Image = "data:image/png;base64,imgA" -> "imgA"
      [] OTHER -> base64Image

\* the arguments <<image_data, name, relationship, color>> of add_face calls
AddFaceArguments ==
    {<<"imgA", "Ana", "Daughter", Undefined>>,
     <<"data:image/png;base64,imgA", "Bob", "Daughter", "red">>,
     <<"imgNone", "Ana", "Daughter", Undefined>>,
     <<"imgB", "Ana", Undefined, Undefined>>,
     <<"imgB", "", "Daughter", Undefined>>}

\* handleFaceRecognition, case "add_face": the first detected face is
\* inserted under the given name, without a match query (the reply is not
\* kept in the state)
handleFaceRecognition_add_face(image_data, name, relationship, color) ==
    /\ last' = [called |-> FALSE]
    /\ UNCHANGED <<calls, camera>>
    /\ IF ~Truthy(name) \/ ~Truthy(relationship)
       THEN UNCHANGED <<faces, modelsLoaded>>
       ELSE \E health \in IF modelsLoaded THEN {"none"} ELSE HealthAnswers,
               detect \in DetectAnswers, insert \in StoreAnswers :
              LET faceDetections == detectFaces(modelsLoaded, health, detect,
                                                processImage(image_data))
                  add == addFace(faces,
                                 [name |-> name, relationship |-> relationship,
                                  color |-> IF Truthy(color) THEN color ELSE "blue",
                                  face_embedding |-> faceDetections.faces[1].embedding,
                                  user_id |-> Undefined],
                                 insert)
              IN  /\ modelsLoaded' = faceDetections.modelsLoaded
                  /\ IF Len(faceDetections.faces) = 0
                     THEN UNCHANGED faces
                     ELSE /\ Len(add.table) <= MaxRecords
                          /\ faces' = add.table

\* values of the type FaceInsert: face_embedding, color and user_id are
\* optional
FaceInserts ==
    {[name |-> "Ana", relationship |-> "Daughter", color |-> Undefined,
      face_embedding |-> e, user_id |-> u] :
        e \in {NoVector, <<1, 0, 0>>}, u \in {Undefined, "u1"}}

\* addFace(faceData) called with a FaceInsert
CallAddFace(faceData, answer) ==
    LET add == addFace(faces, faceData, answer)
    IN  /\ Len(add.table) <= MaxRecords
        /\ faces' = add.table
        /\ last' = [called |-> FALSE]
        /\ UNCHANGED <<modelsLoaded, calls, camera>>

\* the SQL function add_face: the table after the call.  NOT NULL on name
\* and relationship and the unique constraint can refuse the INSERT.
add_face(table, face_name, face_relationship, face_color, face_embedding, face_user_id) ==
    LET row == [id |-> Len(table) + 1, name |-> face_name,
                relationship |-> face_relationship, color |-> face_color,
                face_embedding |-> face_embedding, user_id |-> face_user_id]
    IN  IF /\ face_name # NULL
           /\ face_relationship # NULL
           /\ unique_name_per_user(table, row)
        THEN Append(table, row)
        ELSE table

\* add_face called through the database API; parameters left out take their
\* defaults ('blue', NULL, NULL)
RpcAddFace(face_name, face_relationship, face_embedding, face_user_id) ==
    LET table == add_face(faces, face_name, face_relationship, "blue",
                          face_embedding, face_user_id)
    IN  /\ Len(table) <= MaxRecords
        /\ faces' = table
        /\ last' = [called |-> FALSE]
        /\ UNCHANGED <<modelsLoaded, calls, camera>>

NextInsertPaths ==
    \/ \E request \in ConcurrentRequests :
           handleFaceRecognition(request[1], request[2], request[3])
    \/ \E args \in AddFaceArguments :
           handleFaceRecognition_add_face(args[1], args[2], args[3], args[4])
    \/ \E faceData \in FaceInserts, answer \in StoreAnswers :
           CallAddFace(faceData, answer)
    \/ \E face_name \in {"Ana", NULL}, face_relationship \in {"Daughter", NULL},
          face_embedding \in {NoVector, <<0, 1, 0>>}, face_user_id \in {NULL, "u1"} :
           RpcAddFace(face_name, face_relationship, face_embedding, face_user_id)

SpecInsertPaths == Init /\ [][NextInsertPaths]_vars

(***************************************************************************)
(* The CallTool request handler of the MCP server: the dispatch on the     *)
(* tool name, inside a try whose catch rethrows every error as an          *)
(* InternalError.                                                          *)
(***************************************************************************)
\* the tool names a client sends; the last one is not a tool of the server
ToolNames ==
    {"ping", "recognize_face", "manage_timer", "monitor_location", "identify_person"}

\* new McpError(code, message)
McpError(code, message) == [mcpError |-> code, message |-> message]

\* handlePing(args); the timestamp of the reply is left out
handlePing(message) ==
    ToolContent([success |-> TRUE,
                 echo |-> IF Truthy(message) THEN message ELSE "Hello from MCP!",
                 server |-> "dementia-aid-mcp-server"])

\* handleTimer(args); the timer_id of the reply is left out.  A duration
\* of 0 stands for every falsy duration_minutes.
handleTimer(duration_minutes) ==
    ToolContent([success |-> TRUE, message |-> "Timer processing...",
                 duration |-> IF duration_minutes # 0 THEN duration_minutes ELSE 30])

\* handleLocation(args)
handleLocation ==
    ToolContent([success |-> TRUE, message |-> "Location processing...",
                 is_safe |-> TRUE, location |-> "Unknown"])

\* the switch on the tool name, for the tools that keep no state: what the
\* try block returns or throws
Switch(name, message, duration_minutes) ==
    CASE name = "ping" -> [threw |-> FALSE, value |-> handlePing(message)]
      [] name = "manage_timer" ->
            [threw |-> FALSE, value |-> handleTimer(duration_minutes)]
      [] name = "monitor_location" -> [threw |-> FALSE, value |-> handleLocation]
      [] OTHER ->
            [threw |-> TRUE,
             error |-> McpError("MethodNotFound", <<"Unknown tool: ", name>>)]

\* the try/catch around the switch: what the request handler answers
TryCatch(name, attempt) ==
    IF attempt.threw
    THEN McpError("InternalError",
                  <<"Tool ", name, " failed: ">> \o attempt.error.message)
    ELSE attempt.value

\* a tools/call request for the tool `name`
CallToolRequest(name, request, message, duration_minutes) ==
    IF name = "recognize_face"
    THEN handleFaceRecognition(request[1], request[2], request[3])
    ELSE /\ last' = [called |-> FALSE, name |-> name,
                     response |-> TryCatch(name, Switch(name, message,
                                                        duration_minutes))]
         /\ UNCHANGED <<faces, modelsLoaded, calls, camera>>

\* the recognize_face requests of the clients: <<image, name, relationship>>,
\* the image with or without a data-URL prefix
ServerRequests ==
    ConcurrentRequests
      \cup {<<"data:image/png;base64,imgA", Undefined, Undefined>>,
            <<"data:image/png;base64,imgA", "Ana", "Daughter">>}

NextServer ==
    \E name \in ToolNames, request \in ServerRequests,
       message \in {Undefined, "hello"}, duration_minutes \in {0, 5} :
        CallToolRequest(name, request, message, duration_minutes)

SpecServer == Init /\ [][NextServer]_vars

(***************************************************************************)
(* The camera screen of the app (CameraScreen.tsx).  Each mount creates an *)
(* instance with its own state, refs and closures; what an instance has    *)
(* started (awaits, timers) goes on after it is unmounted, because the     *)
(* cleanup clears the two intervals only.  Places are points of a line,    *)
(* in km.                                                                   *)
(***************************************************************************)
\* where the device can be, and what the settings screen can have saved as
\* home (<<>> when nothing is saved)
Positions == {0, 1, 2}
Homes == {<<>>, <<0>>}

\* calculateDistance: the distance of two places in km
calculateDistance(a, b) == IF a >= b THEN a - b ELSE b - a

\* const DISTANCE_THRESHOLD = 1
DISTANCE_THRESHOLD == 1

\* mutant of TooFarFromHome: the alert also at the threshold
AtLeastThresholdFromHome(distanceFromHome) ==
    distanceFromHome >= DISTANCE_THRESHOLD

\* distanceFromHome > DISTANCE_THRESHOLD
TooFarFromHome(distanceFromHome) == distanceFromHome > DISTANCE_THRESHOLD

\* the instance s is the one on the screen
Mounted(s) == camera.mounted /\ camera.mounts = s

\* the effect of the mount: a new instance; getLocation asks for the
\* location permission, startContinuousRecording for the audio permission.
\* checkIfLost is the one of the first render: its hasCheckedIfLost is false.
Mount ==
    /\ ~camera.mounted
    /\ camera.mounts < MaxMounts
    /\ camera' = [camera EXCEPT
                    !.mounted = TRUE,
                    !.mounts = camera.mounts + 1,
                    !.lost[camera.mounts + 1] =
                        [pc |-> "permission", hasCheckedIfLost |-> FALSE,
                         closure |-> [hasCheckedIfLost |-> FALSE],
                         alerts |-> <<>>],
                    !.rec[camera.mounts + 1] =
                        [pc |-> "permission", isRecordingRef |-> FALSE,
                         startedUnmounted |-> FALSE]]
    /\ UNCHANGED <<faces, modelsLoaded, last, calls>>

\* the cleanup of the effect: stopContinuousRecording up to its first await
\* (its `recording` is the null of the first render)
Unmount ==
    /\ camera.mounted
    /\ camera' = [camera EXCEPT
                    !.mounted = FALSE,
                    !.rec[camera.mounts].isRecordingRef = FALSE]
    /\ UNCHANGED <<faces, modelsLoaded, last, calls>>

\* the settings screen saves or clears the home location
SaveHomeLocation(home) ==
    /\ camera.home # home
    /\ camera' = [camera EXCEPT !.home = home]
    /\ UNCHANGED <<faces, modelsLoaded, last, calls>>

\* getLocation: Location.requestForegroundPermissionsAsync() answers
RequestForegroundPermissions(s, status) ==
    /\ camera.lost[s].pc = "permission"
    /\ camera' = [camera EXCEPT !.lost[s].pc =
                      IF status = "granted" THEN "position" ELSE "done"]
    /\ UNCHANGED <<faces, modelsLoaded, last, calls>>

\* getLocation: Location.getCurrentPositionAsync() answers with a position
\* and the 2 s timer of checkIfLost is set, or it throws
GetCurrentPosition(s, answered, position) ==
    /\ camera.lost[s].pc = "position"
    /\ camera' = [camera EXCEPT !.lost[s] =
                      IF answered
                      THEN [camera.lost[s] EXCEPT !.pc = "timer"]
                             @@ [position |-> position]
                      ELSE [camera.lost[s] EXCEPT !.pc = "done"]]
    /\ UNCHANGED <<faces, modelsLoaded, last, calls>>

\* the 2 s timer fires: checkIfLost up to the read of the storage
CheckIfLostTimer(s) ==
    /\ camera.lost[s].pc = "timer"
    /\ camera' = [camera EXCEPT !.lost[s].pc =
                      IF camera.lost[s].closure.hasCheckedIfLost
                      THEN "done" ELSE "storage"]
    /\ UNCHANGED <<faces, modelsLoaded, last, calls>>

\* getHomeLocationFromStorage answers (null when nothing is saved or the
\* read fails) and checkIfLost runs to its end
CheckIfLost(s, readOk) ==
    LET lost == camera.lost[s]
        loadedHomeLocation == IF readOk THEN camera.home ELSE <<>>
        distanceFromHome == calculateDistance(lost.position, loadedHomeLocation[1])
    IN  /\ lost.pc = "storage"
        /\ camera' = [camera EXCEPT !.lost[s] =
                          IF loadedHomeLocation = <<>>
                          THEN [lost EXCEPT !.pc = "done"]
                          ELSE IF TooFarFromHome(distanceFromHome)
                          THEN [lost EXCEPT
                                  !.pc = "done",
                                  !.hasCheckedIfLost = TRUE,
                                  !.alerts = Append(@,
                                      [title |-> "Are you lost?",
                                       distanceFromHome |-> distanceFromHome,
                                       position |-> lost.position,
                                       home |-> camera.home])]
                          ELSE [lost EXCEPT !.pc = "done"]]
        /\ UNCHANGED <<faces, modelsLoaded, last, calls>>

NextCameraLost ==
    \/ Mount
    \/ Unmount
    \/ \E home \in Homes : SaveHomeLocation(home)
    \/ \E s \in 1..MaxMounts :
          \/ \E status \in {"granted", "denied"} :
                 RequestForegroundPermissions(s, status)
          \/ \E answered \in BOOLEAN, position \in Positions :
                 GetCurrentPosition(s, answered, position)
          \/ CheckIfLostTimer(s)
          \/ \E readOk \in BOOLEAN : CheckIfLost(s, readOk)

SpecCameraLost == Init /\ [][NextCameraLost]_vars

\* startRecordingSegment() is called in the instance s: up to the await of
\* Audio.Recording.createAsync.  startedUnmounted keeps whether the instance
\* was off the screen at one of these calls.
startRecordingSegment(s, rec) ==
    [rec EXCEPT !.pc = "creating",
                !.startedUnmounted = @ \/ ~Mounted(s)]

\* `if (isRecordingRef.current) startRecordingSegment()`, else the chain ends
ContinueIfRecording(s, rec) ==
    IF rec.isRecordingRef THEN startRecordingSegment(s, rec)
    ELSE [rec EXCEPT !.pc = "stopped"]

\* the catch blocks: `if (isRecordingRef.current) setTimeout(startRecordingSegment, ...)`
RetryIfRecording(rec) ==
    [rec EXCEPT !.pc = IF rec.isRecordingRef THEN "retry" ELSE "stopped"]

\* startContinuousRecording: Audio.requestPermissionsAsync() answers
RequestPermissions(s, status) ==
    /\ camera.rec[s].pc = "permission"
    /\ camera' = [camera EXCEPT !.rec[s].pc =
                      IF status = "granted" THEN "audioMode" ELSE "stopped"]
    /\ UNCHANGED <<faces, modelsLoaded, last, calls>>

\* startContinuousRecording: Audio.setAudioModeAsync() answers; the ref is
\* set and the first segment is started, or the catch ends it
SetAudioMode(s, ok) ==
    /\ camera.rec[s].pc = "audioMode"
    /\ camera' = [camera EXCEPT !.rec[s] =
                      IF ok
                      THEN startRecordingSegment(s, [@ EXCEPT !.isRecordingRef = TRUE])
                      ELSE [@ EXCEPT !.pc = "stopped"]]
    /\ UNCHANGED <<faces, modelsLoaded, last, calls>>

\* startRecordingSegment: Audio.Recording.createAsync() answers; the 10 s
\* timer of the segment is set, or the catch sets the 2 s retry timer
CreateAsync(s, ok) ==
    /\ camera.rec[s].pc = "creating"
    /\ camera' = [camera EXCEPT !.rec[s] =
                      IF ok THEN [@ EXCEPT !.pc = "segment"]
                      ELSE RetryIfRecording(@)]
    /\ UNCHANGED <<faces, modelsLoaded, last, calls>>

\* the 10 s timer fires: processRecordingSegment up to stopAndUnloadAsync
SegmentTimer(s) ==
    /\ camera.rec[s].pc = "segment"
    /\ camera' = [camera EXCEPT !.rec[s].pc = "stopping"]
    /\ UNCHANGED <<faces, modelsLoaded, last, calls>>

\* processRecordingSegment: stopAndUnloadAsync() answers; with a uri the
\* segment is uploaded, without one the next segment is started, and the
\* catch sets the 1 s retry timer
StopAndUnload(s, ok, uri) ==
    /\ camera.rec[s].pc = "stopping"
    /\ camera' = [camera EXCEPT !.rec[s] =
                      IF ~ok THEN RetryIfRecording(@)
                      ELSE IF uri THEN [@ EXCEPT !.pc = "uploading"]
                      ELSE ContinueIfRecording(s, @)]
    /\ UNCHANGED <<faces, modelsLoaded, last, calls>>

\* processRecordingSegment: uploadAudioSegment() answers or throws
UploadAudioSegment(s) ==
    /\ camera.rec[s].pc = "uploading"
    /\ camera' = [camera EXCEPT !.rec[s] = ContinueIfRecording(s, @)]
    /\ UNCHANGED <<faces, modelsLoaded, last, calls>>

\* a retry timer fires: startRecordingSegment()
RetryTimer(s) ==
    /\ camera.rec[s].pc = "retry"
    /\ camera' = [camera EXCEPT !.rec[s] = startRecordingSegment(s, @)]
    /\ UNCHANGED <<faces, modelsLoaded, last, calls>>

NextCameraRecording ==
    \/ Mount
    \/ Unmount
    \/ \E s \in 1..MaxMounts :
          \/ \E status \in {"granted", "denied"} : RequestPermissions(s, status)
          \/ \E ok \in BOOLEAN : SetAudioMode(s, ok)
          \/ \E ok \in BOOLEAN : CreateAsync(s, ok)
          \/ SegmentTimer(s)
          \/ \E ok \in BOOLEAN, uri \in BOOLEAN : StopAndUnload(s, ok, uri)
          \/ UploadAudioSegment(s)
          \/ RetryTimer(s)

SpecCameraRecording == Init /\ [][NextCameraRecording]_vars

(***************************************************************************)
(* Reading the last tool call.                                             *)
(***************************************************************************)
\* the recognizeFace result the last call returned to the caller
Result == last.response.content[1].text

\* the last call ran the detection and got at least one face
FaceResolved ==
    /\ last.called
    /\ last.answers.detect = "ok"
    /\ Len(PythonDetect(last.image_data).faces) > 0

\* the descriptor of the first face of the last call's image
QueryEmbedding == PythonDetect(last.image_data).faces[1].embedding

\* an optional argument was supplied non-empty
Supplied(s) == s # Undefined /\ s # ""

\* name and relationship were both supplied non-empty to the last call
BothSupplied == Supplied(last.person_name) /\ Supplied(last.person_relationship)

\* 1 - (a <=> q) >= pct/100
SimilarityAtLeast(a, q, pct) ==
    /\ Dot(a, q) > 0
    /\ Dot(a, q) * Dot(a, q) * 10000 >= pct * pct * Norm2(a) * Norm2(q)

\* every row the table held before the last call is below 0.7 to the query
BelowThresholdToAll ==
    \A i \in 1..Len(last.before) :
        ~SimilarityAtLeast(last.before[i].face_embedding, QueryEmbedding, 70)

\* the result names the row r as an existing person
ReturnsIdentity(result, r) ==
    /\ result.success = TRUE
    /\ "person" \in DOMAIN result /\ result.person = r.name
    /\ "relationship" \in DOMAIN result /\ result.relationship = r.relationship
    /\ "color" \in DOMAIN result /\ result.color = r.color

\* the result carries the field is_new_person with the value b
IsNewPerson(result, b) ==
    "is_new_person" \in DOMAIN result /\ result.is_new_person = b

\* the Unmatched response
IsUnmatched(result) ==
    /\ result.success = FALSE
    /\ "person" \in DOMAIN result /\ result.person = "Unknown"
    /\ result.message = <<"Face detected but not recognized. Provide name and relationship to add new person.">>

(***************************************************************************)
(* Claims.                                                                 *)
(***************************************************************************)

\* C1: when the first face is at similarity >= 0.7 to exactly one stored row
\* (every other row below 0.7) and the store answers, recognizeFace returns
\* success=true with that row's name, relationship and color, and with
\* is_new_person=false.
C1_SingleMatchReturnsRecord ==
    (/\ FaceResolved
     /\ last.answers.match = "ok")
    => \A i \in 1..Len(last.before) :
         (/\ SimilarityAtLeast(last.before[i].face_embedding, QueryEmbedding, 70)
          /\ \A k \in 1..Len(last.before) : k # i =>
                ~SimilarityAtLeast(last.before[k].face_embedding, QueryEmbedding, 70))
         => /\ ReturnsIdentity(Result, last.before[i])
            /\ IsNewPerson(Result, FALSE)

\* C2: when the first face is below 0.7 to every stored row, name and
\* relationship are both supplied non-empty and the store answers,
\* recognizeFace inserts exactly one row carrying the supplied name,
\* relationship and that descriptor, and returns success=true for it with
\* is_new_person=true.
C2_CreateInsertsOneRecord ==
    (/\ FaceResolved
     /\ BelowThresholdToAll
     /\ BothSupplied
     /\ last.answers.match = "ok"
     /\ last.answers.insert = "ok")
    => /\ Len(faces) = Len(last.before) + 1
       /\ SubSeq(faces, 1, Len(last.before)) = last.before
       /\ faces[Len(faces)].name = last.person_name
       /\ faces[Len(faces)].relationship = last.person_relationship
       /\ faces[Len(faces)].face_embedding = QueryEmbedding
       /\ ReturnsIdentity(Result, faces[Len(faces)])
       /\ IsNewPerson(Result, TRUE)

\* C3: when the first face is below 0.7 to every stored row and name and
\* relationship are not both supplied non-empty, recognizeFace returns the
\* success=false Unmatched result and the stored rows are the same after
\* the call as before it.
C3_UnmatchedLeavesStore ==
    (/\ FaceResolved
     /\ BelowThresholdToAll
     /\ ~BothSupplied)
    => /\ IsUnmatched(Result)
       /\ faces = last.before

\* C3 witness: a call with only one of the two arguments, on a table that
\* holds a row, whose face is below the threshold to it.
C3_Witness ==
    /\ FaceResolved
    /\ BelowThresholdToAll
    /\ ~BothSupplied
    /\ Supplied(last.person_name) \/ Supplied(last.person_relationship)
    /\ Len(last.before) > 0
    /\ IsUnmatched(Result)

\* C4: when the detection finds zero faces in the image, recognizeFace
\* returns success=false with the message "No faces detected in the image"
\* and neither queries nor changes the store.
C4_NoFaceNoStoreAccess ==
    (/\ last.called
     /\ last.answers.detect = "ok"
     /\ Len(PythonDetect(last.image_data).faces) = 0)
    => /\ Result.success = FALSE
       /\ Result.message = <<"No faces detected in the image">>
       /\ last.storeCalls = <<>>
       /\ faces = last.before

\* C4 witness: a call on a non-empty table, with name and relationship
\* supplied, whose image holds no face.
C4_Witness ==
    /\ last.called
    /\ last.answers.detect = "ok"
    /\ PythonDetect(last.image_data).success
    /\ Len(PythonDetect(last.image_data).faces) = 0
    /\ BothSupplied
    /\ Len(last.before) > 0
    /\ Result.message = <<"No faces detected in the image">>

\* C5: the threshold is inclusive: when a stored row is at similarity exactly
\* 0.7 to the first face, no other row is closer and the store answers,
\* recognizeFace reports that row and creates nothing.
C5_ThresholdInclusive ==
    (/\ FaceResolved
     /\ last.answers.match = "ok")
    => \A i \in 1..Len(last.before) :
         (/\ SimilarityEquals(last.before[i].face_embedding, QueryEmbedding, 70)
          /\ \A k \in 1..Len(last.before) : k # i =>
                Closer(last.before[i].face_embedding,
                       last.before[k].face_embedding, QueryEmbedding))
         => /\ ReturnsIdentity(Result, last.before[i])
            /\ faces = last.before

\* the last call found an existing person: the lookup answered with a row
FoundExisting ==
    /\ FaceResolved
    /\ last.answers.match = "ok"
    /\ last.storeCalls = <<"match_faces">>
    /\ Result.success = TRUE

\* the last call created a person: the insert answered with the new row
CreatedNew ==
    /\ FaceResolved
    /\ last.answers.insert = "ok"
    /\ Result.success = TRUE
    /\ Len(faces) = Len(last.before) + 1

\* C6: two calls in a row with the same descriptor, the first of which found
\* an existing person (the second with or without name and relationship, the
\* store answering): neither call inserts a row and both return the same
\* person, relationship and color.
C6_MatchIdempotent ==
    [][(/\ FoundExisting
        /\ FaceResolved'
        /\ QueryEmbedding' = QueryEmbedding
        /\ last'.answers.match = "ok")
       => /\ faces = last.before
          /\ faces' = faces
          /\ Result'.success = TRUE
          /\ Result'.person = Result.person
          /\ Result'.relationship = Result.relationship
          /\ Result'.color = Result.color]_vars

\* C7: after a call created a row for descriptor D with name N and
\* relationship R, a following call with D and no name (the store answering)
\* returns success=true, person=N, relationship=R, is_new_person=false and
\* creates no second row.
C7_CreateThenResolve ==
    [][(/\ CreatedNew
        /\ FaceResolved'
        /\ QueryEmbedding' = QueryEmbedding
        /\ last'.person_name = Undefined
        /\ last'.answers.match = "ok")
       => /\ faces' = faces
          /\ ReturnsIdentity(Result', faces[Len(faces)])
          /\ Result'.person = last.person_name
          /\ Result'.relationship = last.person_relationship
          /\ IsNewPerson(Result', FALSE)]_vars

\* C8: no name-based deduplication: when a row with name N and relationship
\* R is stored, a call with the same N and R and a different descriptor that
\* is below 0.7 to every stored row (the store answering) succeeds and
\* inserts a second row with a new id, so that two rows named N are stored.
C8_NoNameDeduplication ==
    (/\ FaceResolved
     /\ BothSupplied
     /\ BelowThresholdToAll
     /\ last.answers.match = "ok"
     /\ last.answers.insert = "ok"
     /\ \E i \in 1..Len(last.before) :
            /\ last.before[i].name = last.person_name
            /\ last.before[i].relationship = last.person_relationship
            /\ last.before[i].face_embedding # QueryEmbedding)
    => /\ Result.success = TRUE
       /\ Result.person = last.person_name
       /\ Len(faces) = Len(last.before) + 1
       /\ faces[Len(faces)].name = last.person_name
       /\ faces[Len(faces)].face_embedding = QueryEmbedding
       /\ \A i \in 1..Len(last.before) : faces[i].id # faces[Len(faces)].id
       /\ Cardinality({i \in 1..Len(faces) : faces[i].name = last.person_name}) >= 2

\* C8 witness: two rows with the same name and relationship and different
\* descriptors are stored, the second inserted by the last call.
C8_Witness ==
    /\ CreatedNew
    /\ Len(faces) = 2
    /\ faces[1].name = faces[2].name
    /\ faces[1].relationship = faces[2].relationship
    /\ faces[1].face_embedding # faces[2].face_embedding
    /\ faces[1].id # faces[2].id
    /\ Result.person = faces[1].name

\* C9: when the store fails during the match query, recognizeFace returns a
\* failure that is not the Unmatched response, and it does not go on to
\* insert as if no row had matched.
C9_StoreFailureSurfaced ==
    (/\ FaceResolved
     /\ last.answers.match = "failed")
    => /\ Result.success = FALSE
       /\ ~IsUnmatched(Result)
       /\ last.storeCalls = <<"match_faces">>

\* C10: in every state of the service, a call during which the detection
\* backend is unreachable or answers non-OK returns a failure whose message
\* is not "No faces detected in the image".
C10_BackendFailureDistinct ==
    (/\ last.called
     /\ \/ last.answers.health \in {"nonok", "timeout", "reject"}
        \/ last.answers.detect = "failed")
    => /\ Result.success = FALSE
       /\ Result.message # <<"No faces detected in the image">>

\* C11: image data that cannot be decoded into an image is reported as an
\* input error and never with the zero-faces message "No faces detected in
\* the image".
C11_InvalidImageNotNoFaces ==
    (/\ last.called
     /\ last.image_data = "imgBad")
    => /\ Result.success = FALSE
       /\ Result.message # <<"No faces detected in the image">>

\* a request of the last call to the backend or to the store failed
SomeRequestFailed ==
    \/ last.answers.health \in {"nonok", "timeout", "reject"}
    \/ last.answers.detect = "failed"
    \/ last.answers.match = "failed"
    \/ last.answers.insert = "failed"

\* C12: whatever the arguments, a tool call during which the backend or the
\* store failed ends with tool content that carries a structured result with
\* success=false and a message; nothing else comes out of the call.
C12_FailureIsStructuredResult ==
    (/\ last.called
     /\ SomeRequestFailed)
    => /\ DOMAIN last.response = {"content"}
       /\ Len(last.response.content) = 1
       /\ last.response.content[1].type = "text"
       /\ Result.success = FALSE
       /\ "message" \in DOMAIN Result
       /\ DOMAIN Result \subseteq
              {"success", "message", "error", "person", "relationship",
               "confidence", "color"}

\* C13: an image with several faces is resolved by its first face alone: in
\* every state in which the service takes a call, a call with it can end
\* exactly as a call with the image that holds only that first face; the
\* lookup is made and any row is inserted with the first face's descriptor.
C13_OnlyFirstFaceResolved ==
    /\ ~last.called
       => \A args \in PersonArguments :
             recognizeFace(faces, modelsLoaded, "imgBA", args[1], args[2])
               = recognizeFace(faces, modelsLoaded, "imgB", args[1], args[2])
    /\ (/\ FaceResolved
        /\ Len(PythonDetect(last.image_data).faces) > 1)
       => /\ last.storeCalls # <<>>
          /\ last.storeCalls[1] = "match_faces"
          /\ Len(faces) > Len(last.before) =>
                /\ Len(faces) = Len(last.before) + 1
                /\ faces[Len(faces)].face_embedding = QueryEmbedding

\* C13 witness: a call with the two-face image on a table that holds the
\* second face's descriptor inserted a row with the first face's descriptor.
C13_Witness ==
    /\ FaceResolved
    /\ Len(PythonDetect(last.image_data).faces) > 1
    /\ PythonDetect(last.image_data).faces[2].embedding # QueryEmbedding
    /\ \E i \in 1..Len(last.before) :
           last.before[i].face_embedding
             = PythonDetect(last.image_data).faces[2].embedding
    /\ last.answers.match = "ok"
    /\ Len(faces) = Len(last.before) + 1
    /\ faces[Len(faces)].face_embedding = QueryEmbedding
    /\ Result.success = TRUE

\* the rows stored before the last call that pass the match query's filter
\* (similarity above 0.7) for the last call's descriptor
ClearingRows ==
    {i \in 1..Len(last.before) :
        /\ last.before[i].face_embedding # NoVector
        /\ Dot(last.before[i].face_embedding, QueryEmbedding) > 0
        /\ Dot(last.before[i].face_embedding, QueryEmbedding)
             * Dot(last.before[i].face_embedding, QueryEmbedding) * 100
           > 49 * Norm2(last.before[i].face_embedding) * Norm2(QueryEmbedding)}

TiedAtTheTop ==
    \E i, k \in 1..Len(last.before) :
        /\ i # k
        /\ SimilarityAtLeast(last.before[i].face_embedding, QueryEmbedding, 70)
        /\ ~Closer(last.before[i].face_embedding,
                   last.before[k].face_embedding, QueryEmbedding)
        /\ ~Closer(last.before[k].face_embedding,
                   last.before[i].face_embedding, QueryEmbedding)
        /\ \A j \in 1..Len(last.before) :
               ~Closer(last.before[j].face_embedding,
                       last.before[i].face_embedding, QueryEmbedding)

\* C15: the tie-break is deterministic: when two stored rows are at the same
\* similarity at or above the threshold, two runs of the match query with
\* the same descriptor on the same table (the store answering) return the
\* same row.
C15_TieBreakDeterministic ==
    [][(/\ FoundExisting
        /\ TiedAtTheTop
        /\ FaceResolved'
        /\ QueryEmbedding' = QueryEmbedding
        /\ last'.before = last.before
        /\ last'.answers.match = "ok")
       => /\ Result'.success = TRUE
          /\ Result'.person = Result.person
          /\ Result'.relationship = Result.relationship
          /\ Result'.color = Result.color]_vars

\* the descriptor of the first face of the image caller c sent
CallEmbedding(c) == PythonDetect(calls[c].base64Image).faces[1].embedding

\* the calls of c and d both returned after a match query that answered
\* without a match and an insert that the store accepted, for one descriptor
BothCreated(c, d) ==
    /\ c # d
    /\ calls[c].pc = "done" /\ calls[d].pc = "done"
    /\ calls[c].answers.match = "ok" /\ calls[d].answers.match = "ok"
    /\ calls[c].answers.insert = "ok" /\ calls[d].answers.insert = "ok"
    /\ CallEmbedding(c) = CallEmbedding(d)

\* C16: two concurrent calls for the same unseen descriptor, both with name
\* and relationship, whose match queries both answered "no match" (each
\* before the other's insert) both insert: both return the added person and
\* the table holds two rows with that descriptor; nothing refuses the second.
C16_ConcurrentCreatesDuplicate ==
    \A c, d \in Callers :
        BothCreated(c, d)
        => /\ calls[c].result.success = TRUE
           /\ calls[d].result.success = TRUE
           /\ calls[c].result.message[1] = "Added new person: "
           /\ calls[d].result.message[1] = "Added new person: "
           /\ Cardinality({i \in 1..Len(faces) :
                  faces[i].face_embedding = CallEmbedding(c)}) >= 2

\* C16 witness: both callers sent the same image, name and relationship to
\* an empty table, both created, and the table holds the person twice.
C16_Witness ==
    /\ BothCreated("c1", "c2")
    /\ calls["c1"].personName = calls["c2"].personName
    /\ calls["c1"].personRelationship = calls["c2"].personRelationship
    /\ Len(faces) = 2
    /\ faces[1].face_embedding = faces[2].face_embedding
    /\ faces[1].name = faces[2].name
    /\ faces[1].id # faces[2].id

\* C17: every recognizeFace call eventually returns a result, also when the
\* backend or the store never answers.
C17_EveryCallReturns ==
    \A c \in Callers : (calls[c].pc # "idle") ~> (calls[c].pc = "done")

\* C18: in every reachable state of the table, whatever insert paths ran
\* (the create path of recognizeFace, the add_face tool operation, addFace
\* with a FaceInsert, the SQL function add_face), every row has a name, a
\* relationship and a descriptor that is not NULL.
C18_RecordsComplete ==
    \A i \in 1..Len(faces) :
        /\ faces[i].name # NULL
        /\ faces[i].relationship # NULL
        /\ faces[i].face_embedding # NoVector

\* C19: a recognize_face tool call deletes no row, and it inserts a row only
\* when it supplied both name and relationship and the descriptor of its
\* face matched no stored row at or above the threshold.
C19_InsertOnlyByUnmatchedCreate ==
    last.called
    => /\ Len(faces) >= Len(last.before)
       /\ SubSeq(faces, 1, Len(last.before)) = last.before
       /\ Len(faces) > Len(last.before)
          => /\ FaceResolved
             /\ BothSupplied
             /\ BelowThresholdToAll

\* C20: when an existing person is found, the confidence of the response is
\* the cosine similarity between the query descriptor and the reported row
\* (to the hundredth).
C20_ConfidenceIsSimilarity ==
    FoundExisting
    => /\ "confidence" \in DOMAIN Result
       /\ Result.confidence >= 0 /\ Result.confidence <= 100
       /\ \E i \in 1..Len(last.before) :
             /\ ReturnsIdentity(Result, last.before[i])
             /\ SimilarityAtLeast(last.before[i].face_embedding, QueryEmbedding,
                                  Result.confidence - 1)
             /\ ~SimilarityAbove(last.before[i].face_embedding, QueryEmbedding,
                                 Result.confidence + 1)

\* C21: a tools/call request that names a tool other than ping,
\* recognize_face, manage_timer and monitor_location is answered with the
\* error MethodNotFound, not with an internal error.
C21_UnknownToolMethodNotFound ==
    (/\ ~last.called
     /\ "name" \in DOMAIN last
     /\ last.name \notin {"ping", "recognize_face", "manage_timer",
                           "monitor_location"})
    => /\ "mcpError" \in DOMAIN last.response
       /\ last.response.mcpError = "MethodNotFound"

\* C22: a call whose image_data carries a data-URL prefix and whose /detect
\* request is answered gives the backend the same image bytes as the call
\* with the bare payload, and, in the same state and with the same answers
\* of the backend and the store, ends as a call with the bare payload can.
C22_DataUrlPrefixEquivalent ==
    (/\ last.called
     /\ last.image_data = "data:image/png;base64,imgA"
     /\ last.answers.detect = "ok")
    => /\ BufferFromBase64(last.image_data) = BufferFromBase64("imgA")
       /\ \E o \in recognizeFace(last.before, last.loadedBefore, "imgA",
                                  last.person_name, last.person_relationship) :
             /\ o.result = Result
             /\ o.faces = faces
             /\ o.answers = last.answers

\* the "Are you lost?" alerts the instance s has shown
LostAlerts(s) ==
    IF camera.lost[s].pc = "unmounted" THEN <<>> ELSE camera.lost[s].alerts

\* C23: the "Are you lost?" alert is shown only when a home location is
\* saved and the distance of the position from it is strictly greater than
\* 1 km, and an instance of the camera screen shows it at most once.
C23_LostAlertOnlyFarFromHome ==
    \A s \in 1..MaxMounts :
        /\ Len(LostAlerts(s)) <= 1
        /\ \A i \in 1..Len(LostAlerts(s)) :
              LET alert == LostAlerts(s)[i]
              IN  /\ alert.home # <<>>
                  /\ \/ alert.position - alert.home[1] > 1
                     \/ alert.home[1] - alert.position > 1
                  /\ alert.distanceFromHome > 1

\* C23 witness: one instance showed the alert 2 km from home, and another
\* instance finished its check 1 km from the saved home without an alert.
C23_Witness ==
    \E s, t \in 1..MaxMounts :
        /\ Len(LostAlerts(s)) = 1
        /\ LostAlerts(s)[1].distanceFromHome = 2
        /\ t # s
        /\ camera.lost[t].pc = "done"
        /\ "position" \in DOMAIN camera.lost[t]
        /\ camera.lost[t].position = 1
        /\ camera.home = <<0>>
        /\ Len(LostAlerts(t)) = 0

\* the /health request of the warm-up failed in the call
WarmUpFailed(health) == health \in {"nonok", "timeout", "reject"}

\* C24: a call whose warm-up fails (the /health request times out, is
\* rejected or answers non-OK) leaves modelsLoaded false and returns a
\* structured failure; the call that follows it sends /health again and,
\* when /health answers OK, goes on as a call of a warm service does: to the
\* check of the image data and to the detection request.
C24_FailedWarmUpRetryable ==
    last.called =>
        /\ (~last.loadedBefore /\ WarmUpFailed(last.answers.health))
              => /\ ~modelsLoaded
                 /\ faces = last.before
                 /\ Result.success = FALSE
                 /\ {"message", "error"} \subseteq DOMAIN Result
                 /\ last.requests = <<"health">>
        /\ WarmUpFailed(last.previousHealth)
              => /\ ~last.loadedBefore
                 /\ last.requests # <<>>
                 /\ last.requests[1] = "health"
                 /\ last.answers.health = "ok"
                       => /\ modelsLoaded
                          /\ IF IsBlank(last.image_data)
                             THEN Result.message = <<"No image data provided">>
                             ELSE /\ last.requests = <<"health", "detect">>
                                  /\ last.answers.detect # "none"

\* C24 witness: the call before failed its warm-up; this one sent /health
\* again, got OK, and went on to recognise the stored person.
C24_Witness ==
    /\ last.called
    /\ WarmUpFailed(last.previousHealth)
    /\ last.answers.health = "ok"
    /\ last.requests = <<"health", "detect">>
    /\ modelsLoaded
    /\ Result.success = TRUE

\* the requests of the last call hold a /health request
AskedHealth == \E i \in 1..Len(last.requests) : last.requests[i] = "health"

\* C25: a call made once the warm-up has succeeded sends no /health request
\* and leaves modelsLoaded true, and no step takes modelsLoaded from true to
\* false.
C25_WarmUpIdempotent ==
    /\ []((last.called /\ last.loadedBefore)
            => /\ ~AskedHealth
               /\ last.answers.health = "none"
               /\ modelsLoaded)
    /\ [][modelsLoaded => modelsLoaded']_vars

\* C25 witness: a call made with the flag set went to /detect alone and
\* the flag is still set.
C25_Witness ==
    /\ last.called
    /\ last.loadedBefore
    /\ last.requests = <<"detect">>
    /\ modelsLoaded

\* the callers whose /health request is out and not yet answered
AwaitingHealth == {c \in Callers : calls[c].pc = "health"}

\* C26: while modelsLoaded is false, the calls that have started have sent
\* at most one /health request between them.
C26_OneHealthRequestInFlight ==
    ~modelsLoaded => Cardinality(AwaitingHealth) <= 1

\* the last call sent an insert to the store
SentInsert == \E i \in 1..Len(last.storeCalls) : last.storeCalls[i] = "insert"

\* C27: a call sends an insert only after its match query was answered
\* without error and without a row; a call whose match query fails while
\* name and relationship are supplied leaves the table as it was.
C27_InsertOnlyAfterAnsweredMatch ==
    last.called =>
        /\ SentInsert => last.answers.match = "ok"
        /\ (last.answers.match = "failed" /\ BothSupplied) => faces = last.before

\* C28: when name and relationship are supplied, no row matches and the
\* insert fails, the call returns a failure that is not the Unmatched
\* response, and it does not return success=true with the table unchanged.
C28_FailedInsertReported ==
    (/\ last.called
     /\ BothSupplied
     /\ last.answers.match = "ok"
     /\ last.answers.insert = "failed")
    => /\ faces = last.before
       /\ Result.success = FALSE
       /\ ~IsUnmatched(Result)

\* C29: with modelsLoaded true or false and whatever the backend answers,
\* a call with empty or whitespace-only image data returns success=false
\* with the message "No image data provided" and sends nothing to the
\* detection backend or to the store.
C29_BlankImageRejectedFirst ==
    (/\ last.called
     /\ last.image_data \in {"", " "})
    => /\ Result.success = FALSE
       /\ Result.message = <<"No image data provided">>
       /\ last.requests = <<>>
       /\ last.storeCalls = <<>>

\* the instances whose chain of recording segments goes on: a segment is
\* being created, recorded, stopped or uploaded, or a retry timer is set
ActiveChains ==
    {s \in 1..MaxMounts :
        camera.rec[s].pc \in {"creating", "segment", "stopping", "uploading", "retry"}}

\* C30: an instance of the camera screen starts no recording segment once
\* it is unmounted, however the unmount falls among the permission
\* request, the segment timer and the retry timers; and while the screen
\* is mounted at most one chain of segments is active.
C30_NoSegmentAfterUnmount ==
    /\ \A s \in 1..MaxMounts :
          camera.rec[s].pc # "unmounted" => ~camera.rec[s].startedUnmounted
    /\ camera.mounted => Cardinality(ActiveChains) <= 1

====
